---- MODULE Spec2Model ----
(***************************************************************************)
(* A state-machine model of the front end of the aidl compiler            *)
(* (src/aidl.cpp): method-id assignment, type checking of an interface,   *)
(* the preprocessed-declaration reader and writer, and the compile        *)
(* driver load_and_validate_aidl with its two callers.                     *)
(***************************************************************************)
EXTENDS Integers, Sequences, FiniteSets, TLC

VARIABLES
    items,      \* the methods handed to check_and_assign_method_ids
    itemsIn,    \* the same methods as they were when the call was made
    idRet,      \* its return value
    idPc,       \* "ready" before the call, "done" after it
    interface,  \* the AidlInterface under validation
    types,      \* the TypeNamespace of the task
    err,        \* the error result accumulated so far
    calls,      \* the calls made on the TypeNamespace by check_types, in order
    diags,      \* the diagnostics check_types has written to cerr, in order
    pc,         \* the position of the task
    fs,         \* the preprocessed files of the file system, by name
    fds,        \* the opens and closes of files that have succeeded
    toPreprocess, \* what ParseFile gives for each of files_to_preprocess_
    ppRet,      \* the return value of preprocess_aidl
    ppPc,       \* "ready" before preprocess_aidl, "done" after it
    rdIn,       \* the file parse_preprocessed_file was called on
    rdRet,      \* the return value of parse_preprocessed_file
    rdPc,       \* "ready" before parse_preprocessed_file, "done" after it
    input,      \* the options of a compile task and what its collaborators answer
    imports,    \* the AidlImports of the primary file: class needed, file name
    docs,       \* the document parsed for each import (empty when none)
    ret         \* the return value of the compile task

idVars == <<items, itemsIn, idRet, idPc>>
checkVars == <<interface, types, err, calls, diags, pc>>
preVars == <<fs, fds, toPreprocess, ppRet, ppPc, rdIn, rdRet, rdPc>>
compileVars == <<input, imports, docs, ret>>

vars == <<items, itemsIn, idRet, idPc, interface, types, err, calls, diags, pc,
          fs, fds, toPreprocess, ppRet, ppPc, rdIn, rdRet, rdPc,
          input, imports, docs, ret>>

(***************************************************************************)
(* Bounds of the model.                                                    *)
(***************************************************************************)
MaxMethods == 3
\* method and argument declarations of an interface handed to check_types
MaxDecls == 3
\* lines of a preprocessed file as the file system first holds it
MaxLines == 2
\* files handed to preprocess_aidl
MaxFiles == 2
\* the latest fgets call of one read that may fail with a read error
MaxReadError == 2

(***************************************************************************)
(* check_and_assign_method_ids                                             *)
(***************************************************************************)
kMinUserSetMethodId == 0
kMaxUserSetMethodId == 16777214

\* The ids a method declaration may carry: the two limits and their neighbours.
IdValues == {kMinUserSetMethodId - 1, kMinUserSetMethodId, kMinUserSetMethodId + 1,
             kMaxUserSetMethodId, kMaxUserSetMethodId + 1}

\* A method as check_and_assign_method_ids sees it: HasId() and GetId().
\* A method without an explicit id carries id 0 until one is assigned.
IdMethods == [hasId : {TRUE}, id : IdValues] \cup [hasId : {FALSE}, id : {0}]

SeqsUpTo(S, n) == UNION {[1..k -> S] : k \in 0..n}

\* AidlMethod::SetId
SetId(item, newId) == [item EXCEPT !.id = newId]

OutOfBoundsOffByOne(id) == id < kMinUserSetMethodId \/ id > kMaxUserSetMethodId + 1

\* the bounds test of the user-set id
OutOfBounds(id) == id < kMinUserSetMethodId \/ id > kMaxUserSetMethodId

\* the duplicate test of the user-set id
IsDuplicate(id, usedIds) == id \in usedIds

\* the test that explicit and implicit ids are not mixed
IsMixed(hasAssignedIds, hasUnassignedIds) == hasAssignedIds /\ hasUnassignedIds

\* The first loop, from method i on: 1 as soon as a test fails, else 0 together
\* with hasUnassignedIds as the loop leaves it.
RECURSIVE ScanIds(_, _, _, _, _)
ScanIds(its, i, usedIds, hasUnassignedIds, hasAssignedIds) ==
    IF i > Len(its)
    THEN [ret |-> 0, hasUnassignedIds |-> hasUnassignedIds]
    ELSE LET item == its[i]
             assigned == hasAssignedIds \/ item.hasId
             unassigned == hasUnassignedIds \/ ~item.hasId
         IN  IF item.hasId /\ IsDuplicate(item.id, usedIds)
             THEN [ret |-> 1, hasUnassignedIds |-> hasUnassignedIds]
             ELSE IF item.hasId /\ OutOfBounds(item.id)
             THEN [ret |-> 1, hasUnassignedIds |-> hasUnassignedIds]
             ELSE IF IsMixed(assigned, unassigned)
             THEN [ret |-> 1, hasUnassignedIds |-> unassigned]
             ELSE ScanIds(its, i + 1,
                          IF item.hasId THEN usedIds \cup {item.id} ELSE usedIds,
                          unassigned, assigned)

AssignIdsFromOne(its) == [k \in 1..Len(its) |-> SetId(its[k], k)]

\* The second loop: newId counts from 0 in declaration order.
AssignIds(its) == [k \in 1..Len(its) |-> SetId(its[k], k - 1)]

AssignBeforeScan(its) ==
    [ret |-> ScanIds(its, 1, {}, FALSE, FALSE).ret,
     items |-> IF \E k \in 1..Len(its) : ~its[k].hasId THEN AssignIds(its) ELSE its]

\* The whole function: its return value and the methods as it leaves them.
check_and_assign_method_ids(its) ==
    LET scan == ScanIds(its, 1, {}, FALSE, FALSE)
    IN  IF scan.ret # 0
        THEN [ret |-> 1, items |-> its]
        ELSE IF scan.hasUnassignedIds
        THEN [ret |-> 0, items |-> AssignIds(its)]
        ELSE [ret |-> 0, items |-> its]

(***************************************************************************)
(* Strings are sequences of characters.                                    *)
(***************************************************************************)
S_void == <<"v", "o", "i", "d">>
S_int == <<"i", "n", "t">>
S_String == <<"S", "t", "r", "i", "n", "g">>
S_List == <<"L", "i", "s", "t">>
S_aB == <<"a", ".", "B">>
S_ListOfInt == S_List \o <<"<">> \o S_int \o <<">">>
S_X == <<"X">>
S_ListOfX == S_List \o <<"<", "X", ">">>

\* the position of the first c in s from position i on, 0 when there is none
RECURSIVE IndexOf(_, _, _)
IndexOf(s, c, i) ==
    IF i > Len(s) THEN 0 ELSE IF s[i] = c THEN i ELSE IndexOf(s, c, i + 1)

\* strrchr: the position of the last c in s, 0 when there is none
RECURSIVE LastIndexOf(_, _, _)
LastIndexOf(s, c, i) ==
    IF i < 1 THEN 0 ELSE IF s[i] = c THEN i ELSE LastIndexOf(s, c, i - 1)

\* the components of a package joined by '.'
RECURSIVE Join(_)
Join(parts) ==
    IF parts = <<>> THEN <<>>
    ELSE IF Len(parts) = 1 THEN parts[1]
    ELSE parts[1] \o <<".">> \o Join(Tail(parts))

(***************************************************************************)
(* The type namespace (type_namespace.h, type_cpp.cpp, type_java.cpp).     *)
(***************************************************************************)
Builtins == {S_void, S_int, S_String}

EmptyTypes == [user |-> {}, containers |-> {}]

\* the name of a declaration with its package: AidlParcelable::GetCanonicalName
CanonicalName(package, name) ==
    IF package = <<>> THEN name ELSE Join(package) \o <<".">> \o name

\* the part of a qualified name after its last '.'
ClassName(qname) ==
    LET dot == LastIndexOf(qname, ".", Len(qname))
    IN  SubSeq(qname, dot + 1, Len(qname))

\* the user entries a name denotes: by its qualified name, or by its simple name
UserEntries(ns, name) ==
    {e \in ns.user : e.name = name \/ ClassName(e.name) = name}

\* LanguageTypeNamespace::HasType
HasType(ns, name) ==
    \/ name \in Builtins
    \/ name \in ns.containers
    \/ \E e \in ns.user : e.name = name
    \/ Cardinality(UserEntries(ns, name)) = 1

\* AddParcelableType / AddBinderType: insert, fail on a duplicate name
AddUserType(ns, kind, package, name) ==
    LET qname == CanonicalName(package, name)
    IN  IF \E e \in ns.user : e.name = qname
        THEN [ok |-> FALSE, types |-> ns]
        ELSE [ok |-> TRUE,
              types |-> [ns EXCEPT !.user = @ \cup {[kind |-> kind, name |-> qname]}]]

\* MaybeAddContainerType: a List<T> is added when T resolves; a name that is
\* no container instantiation needs nothing
MaybeAddContainerType(ns, name) ==
    LET lt == IndexOf(name, "<", 1)
        param == SubSeq(name, lt + 1, Len(name) - 1)
    IN  IF lt = 0
        THEN [ok |-> TRUE, types |-> ns]
        ELSE IF SubSeq(name, 1, lt - 1) = S_List /\ name[Len(name)] = ">" /\ HasType(ns, param)
        THEN [ok |-> TRUE, types |-> [ns EXCEPT !.containers = @ \cup {name}]]
        ELSE [ok |-> FALSE, types |-> ns]

\* the capability mask of a type that HasType
CanWriteToParcel(ns, name) == name # S_void
CanBeOutParameter(ns, name) ==
    \/ name \in ns.containers
    \/ \E e \in UserEntries(ns, name) : e.kind = "parcelable"

\* IsValidReturnType: the type exists and is void or can be written to a parcel
IsValidReturnType(ns, name) ==
    HasType(ns, name) /\ (name = S_void \/ CanWriteToParcel(ns, name))

\* AidlArgument::IsOut: the direction has the out bit (out and inout)
IsOut(arg) == arg.dir \in {"out", "inout"}

\* IsValidArg: the type exists and can be written; an out or inout argument
\* needs a type that can be an out parameter
IsValidArg(ns, arg, index) ==
    /\ HasType(ns, arg.type)
    /\ CanWriteToParcel(ns, arg.type)
    /\ (IsOut(arg) => CanBeOutParameter(ns, arg.type))

(***************************************************************************)
(* check_types                                                             *)
(***************************************************************************)
EffectivelyOnewayMethodOnly(m, c) == m.oneway

\* bool oneway = m->IsOneway() || c->IsOneway()
EffectivelyOneway(m, c) == m.oneway \/ c.oneway

\* oneway && m->GetType().GetName() != "void"
OnewayReturnViolation(oneway, m) == oneway /\ m.type # S_void

\* oneway && arg->IsOut()
OnewayArgViolation(oneway, arg) == oneway /\ IsOut(arg)

Call(op, mi, ai, index, ok) == [op |-> op, m |-> mi, a |-> ai, index |-> index, ok |-> ok]
Diag(kind, mi, ai) == [kind |-> kind, m |-> mi, a |-> ai]

\* !MaybeAddContainerType(type) || !IsValidReturnType(type): the second call
\* is made only when the first returned true
CheckReturnType(st, m, mi) ==
    LET c == MaybeAddContainerType(st.types, m.type)
        v == IsValidReturnType(c.types, m.type)
        c1 == Append(st.calls, Call("MaybeAddContainerType", mi, 0, 0, c.ok))
    IN  IF ~c.ok
        THEN [st EXCEPT !.types = c.types, !.calls = c1, !.err = 1]
        ELSE [st EXCEPT !.types = c.types,
                        !.calls = Append(c1, Call("IsValidReturnType", mi, 0, 0, v)),
                        !.err = IF v THEN @ ELSE 1]

\* the body of the loop over the arguments, for argument ai
CheckArg(st, m, mi, ai, index, oneway) ==
    LET arg == m.args[ai]
        c == MaybeAddContainerType(st.types, arg.type)
        v == IsValidArg(c.types, arg, index)
        c1 == Append(st.calls, Call("MaybeAddContainerType", mi, ai, 0, c.ok))
        st1 == IF ~c.ok
               THEN [st EXCEPT !.types = c.types, !.calls = c1, !.err = 1]
               ELSE [st EXCEPT !.types = c.types,
                               !.calls = Append(c1, Call("IsValidArg", mi, ai, index, v)),
                               !.err = IF v THEN @ ELSE 1]
    IN  IF OnewayArgViolation(oneway, arg)
        THEN [st1 EXCEPT !.diags = Append(@, Diag("oneway_out", mi, ai)), !.err = 1]
        ELSE st1

\* the loop over the arguments: index is set to 1 before it and the loop
\* body never changes it
RECURSIVE CheckArgs(_, _, _, _, _, _)
CheckArgs(st, m, mi, ai, index, oneway) ==
    IF ai > Len(m.args) THEN st
    ELSE CHOOSE result \in {CheckArgs(st1, m, mi, ai + 1, index, oneway) :
                                st1 \in {CheckArg(st, m, mi, ai, index, oneway)}} : TRUE

CheckDuplicateNever(st, m, mi) == st

\* method_names.find(m->GetName()): a name seen before is an error
CheckDuplicate(st, m, mi) ==
    IF m.name \notin st.method_names
    THEN [st EXCEPT !.method_names = @ \cup {m.name}]
    ELSE [st EXCEPT !.diags = Append(@, Diag("redefine", mi, 0)), !.err = 1]

\* the body of the loop over the methods, for method mi
CheckMethod(st, c, mi) ==
    LET m == c.methods[mi]
        oneway == EffectivelyOneway(m, c)
        st1 == CheckReturnType(st, m, mi)
        st2 == IF OnewayReturnViolation(oneway, m)
               THEN [st1 EXCEPT !.diags = Append(@, Diag("oneway_return", mi, 0)), !.err = 1]
               ELSE st1
        st3 == CheckArgs(st2, m, mi, 1, 1, oneway)
    IN  CHOOSE result \in {CheckDuplicate(st4, m, mi) : st4 \in {st3}} : TRUE

RECURSIVE CheckMethods(_, _, _)
CheckMethods(st, c, mi) ==
    IF mi > Len(c.methods) THEN st
    ELSE CHOOSE result \in {CheckMethods(st1, c, mi + 1) : st1 \in {CheckMethod(st, c, mi)}} : TRUE

\* check_types: its return value, the namespace as it leaves it, and the
\* calls and diagnostics it made
check_types(c, ns) ==
    CheckMethods([err |-> 0, types |-> ns, calls |-> <<>>, diags |-> <<>>,
                  method_names |-> {}], c, 1)

(***************************************************************************)
(* parse_preprocessed_file                                                 *)
(***************************************************************************)
S_parcelable == <<"p", "a", "r", "c", "e", "l", "a", "b", "l", "e">>
S_interface == <<"i", "n", "t", "e", "r", "f", "a", "c", "e">>

\* the NUL byte, which ends a C string
NUL == "NUL"
Whitespace == {" ", "\t", "\n", "\r"}

\* char line[1024]
LineBufSize == 1024

\* a file of the file system: whether it exists, and its bytes
NoFile == [exists |-> FALSE, data |-> <<>>]
File(data) == [exists |-> TRUE, data |-> data]

\* a buffer read as a C string: the bytes before the first NUL
CStr(buf) ==
    LET z == IndexOf(buf, NUL, 1)
    IN  IF z = 0 THEN buf ELSE SubSeq(buf, 1, z - 1)

\* fgets(line, sizeof(line), f) at offset pos: the bytes up to and with the
\* next newline, at most sizeof(line) - 1 of them
Fgets(data, pos) ==
    LET nl == IndexOf(data, "\n", pos)
        last == IF nl = 0 THEN Len(data) ELSE nl
        stop == IF last - pos + 1 > LineBufSize - 1 THEN pos + LineBufSize - 2 ELSE last
    IN  SubSeq(data, pos, stop)

\* the first position from i on whose character is not in cs (Len + 1 at the end)
RECURSIVE SkipWhile(_, _, _)
SkipWhile(s, i, cs) ==
    IF i > Len(s) \/ s[i] \notin cs THEN i ELSE SkipWhile(s, i + 1, cs)

\* the first position from i on whose character is in cs (Len + 1 at the end)
RECURSIVE SkipUntil(_, _, _)
SkipUntil(s, i, cs) ==
    IF i > Len(s) \/ s[i] \in cs THEN i ELSE SkipUntil(s, i + 1, cs)

\* sscanf(line, "%s %[^; \r\n\t];", type, fullname): a conversion that does
\* not match leaves its buffer as it was
Sscanf(line, type, fullname) ==
    LET b1 == SkipWhile(line, 1, Whitespace)
        e1 == SkipUntil(line, b1, Whitespace)
        b2 == SkipWhile(line, e1, Whitespace)
        e2 == SkipUntil(line, b2, {";", " ", "\r", "\n", "\t"})
    IN  IF b1 > Len(line)
        THEN [type |-> type, fullname |-> fullname]
        ELSE [type |-> SubSeq(line, b1, e1 - 1),
              fullname |-> IF e2 = b2 THEN fullname ELSE SubSeq(line, b2, e2 - 1)]

\* android::base::Split(s, "."): no piece for the empty string, else every
\* piece between the delimiters
RECURSIVE Split(_)
Split(s) ==
    LET dot == IndexOf(s, ".", 1)
    IN  IF s = <<>> THEN <<>>
        ELSE IF dot = 0 THEN <<s>>
        ELSE IF dot = Len(s) THEN <<SubSeq(s, 1, dot - 1), <<>>>>
        ELSE <<SubSeq(s, 1, dot - 1)>> \o Split(SubSeq(s, dot + 1, Len(s)))

\* strrchr(fullname, '.') and what follows it: the class name, the package,
\* and fullname as the cut leaves it
SplitFullname(fullname) ==
    LET dot == LastIndexOf(fullname, ".", Len(fullname))
    IN  IF dot # 0
        THEN [classname |-> SubSeq(fullname, dot + 1, Len(fullname)),
              package |-> Split(SubSeq(fullname, 1, dot - 1)),
              fullname |-> SubSeq(fullname, 1, dot - 1)]
        ELSE [classname |-> fullname, package |-> <<>>, fullname |-> fullname]

Parcelable(package, name) == [item_type |-> "USER_DATA_TYPE", package |-> package, name |-> name]
Interface(package, name) == [item_type |-> "INTERFACE_TYPE_BINDER", package |-> package, name |-> name]

\* gather_types: a document is the list of its items (empty for a null
\* document); an interface is registered alone, parcelables one after another
RECURSIVE gather_types(_, _)
gather_types(doc, ns) ==
    IF doc = <<>> THEN [ok |-> TRUE, types |-> ns]
    ELSE IF doc[1].item_type = "INTERFACE_TYPE_BINDER"
    THEN AddUserType(ns, "interface", doc[1].package, doc[1].name)
    ELSE LET a == AddUserType(ns, "parcelable", doc[1].package, doc[1].name)
             rest == gather_types(Tail(doc), a.types)
         IN  [ok |-> a.ok /\ rest.ok, types |-> rest.types]

\* !line[0] || strncmp(line, "//", 2) == 0
IsSkippedLine(line) == line = <<>> \/ (Len(line) >= 2 /\ line[1] = "/" /\ line[2] = "/")

\* The loop of parse_preprocessed_file from offset st.pos on, and what follows
\* it. failAt = k > 0 makes the k-th fgets fail with a read error; the return
\* that follows "error reading file" makes no fclose call. (The loop state is
\* evaluated once per turn.)
RECURSIVE ReadLoop(_, _, _)
RECURSIVE ReadStep(_, _, _)
ReadLoop(st0, data, failAt) ==
    CHOOSE result \in {ReadStep(st, data, failAt) : st \in {st0}} : TRUE

\* one turn of the loop, and the turns after it
ReadStep(st, data, failAt) ==
    IF failAt = st.nread + 1
    THEN [ret |-> 1, types |-> st.types, closes |-> 0, diag |-> "read_error"]
    ELSE IF st.pos > Len(data)
    THEN [ret |-> 0, types |-> st.types, closes |-> 1, diag |-> "none"]
    ELSE LET raw == Fgets(data, st.pos)
             line == CStr(raw)
             next == [st EXCEPT !.pos = @ + Len(raw), !.nread = @ + 1]
             sc == Sscanf(line, st.type, st.fullname)
             sp == SplitFullname(sc.fullname)
             doc == IF sc.type = S_parcelable THEN <<Parcelable(sp.package, sp.classname)>>
                    ELSE <<Interface(sp.package, sp.classname)>>
             g == gather_types(doc, st.types)
         IN  IF IsSkippedLine(line)
             THEN ReadLoop(next, data, failAt)
             ELSE IF sc.type # S_parcelable /\ sc.type # S_interface
             THEN [ret |-> 1, types |-> st.types, closes |-> 1, diag |-> "bad_type"]
             ELSE IF ~g.ok
             THEN [ret |-> 1, types |-> g.types, closes |-> 1, diag |-> "gather_failed"]
             ELSE ReadLoop([next EXCEPT !.types = g.types, !.type = sc.type,
                                        !.fullname = sp.fullname, !.lineno = @ + 1],
                           data, failAt)

\* parse_preprocessed_file: its return value, the namespace as it leaves it,
\* and the fopen and fclose calls that succeeded. type0 and fullname0 are
\* what the uninitialised buffers type and fullname hold at entry.
parse_preprocessed_file(file, ns, failAt, type0, fullname0) ==
    IF ~file.exists
    THEN [ret |-> 1, types |-> ns, opens |-> 0, closes |-> 0, diag |-> "cant_open"]
    ELSE CHOOSE result \in
             {[ret |-> r.ret, types |-> r.types, opens |-> 1, closes |-> r.closes,
               diag |-> r.diag] :
                  r \in {ReadLoop([types |-> ns, type |-> type0, fullname |-> fullname0,
                                   lineno |-> 1, pos |-> 1, nread |-> 0], file.data, failAt)}} : TRUE

(***************************************************************************)
(* preprocess_aidl                                                         *)
(***************************************************************************)
\* "parcelable " for a USER_DATA_TYPE document, "interface " for any other
DeclKeyword(item) == IF item.item_type = "USER_DATA_TYPE" THEN S_parcelable ELSE S_interface

\* the package, when it is not empty, then '.', then the name
Qualified(item) ==
    IF Join(item.package) # <<>> THEN Join(item.package) \o <<".">> \o item.name ELSE item.name

\* the line written for the document's first item
PreprocessedLine(item) == DeclKeyword(item) \o <<" ">> \o Qualified(item) \o <<";", "\n">>

\* what Parser::ParseFile and GetDocument give for a file: failure, or the
\* document, the list of its declarations (empty for a null document)
ParseFailed == [ok |-> FALSE, doc |-> <<>>]
Parsed(doc) == [ok |-> TRUE, doc |-> doc]

\* the loop over files_to_preprocess_ from file i on. A null document is
\* dereferenced: the task dies, or reads whatever the null page holds (ub).
RECURSIVE PreprocessLines(_, _, _, _)
PreprocessLines(parsed, i, lines, ub) ==
    IF i > Len(parsed) THEN [ret |-> 0, lines |-> lines]
    ELSE IF ~parsed[i].ok THEN [ret |-> 1, lines |-> lines]
    ELSE IF parsed[i].doc = <<>> /\ ub.crash THEN [ret |-> 139, lines |-> lines]
    ELSE LET item == IF parsed[i].doc = <<>> THEN ub.item ELSE parsed[i].doc[1]
         IN  PreprocessLines(parsed, i + 1, Append(lines, PreprocessedLine(item)), ub)

RECURSIVE Concat(_)
Concat(lines) == IF lines = <<>> THEN <<>> ELSE lines[1] \o Concat(Tail(lines))

PreprocessWriteKeepsPartial(r, out, openOk, writeFailAt) ==
        IF r.ret # 0
        THEN [ret |-> r.ret, file |-> out, opens |-> 0, closes |-> 0, lines |-> <<>>]
        ELSE IF ~openOk
        THEN [ret |-> 1, file |-> out, opens |-> 0, closes |-> 0, lines |-> <<>>]
        ELSE IF writeFailAt \in 1..Len(r.lines)
        THEN [ret |-> 1, file |-> File(Concat(SubSeq(r.lines, 1, writeFailAt - 1))),
              opens |-> 1, closes |-> 1, lines |-> <<>>]
        ELSE [ret |-> 0, file |-> File(Concat(r.lines)), opens |-> 1, closes |-> 1,
              lines |-> r.lines]

\* "write preprocessed file", r being what "read files" gave
PreprocessWrite(r, out, openOk, writeFailAt) ==
        IF r.ret # 0
        THEN [ret |-> r.ret, file |-> out, opens |-> 0, closes |-> 0, lines |-> <<>>]
        ELSE IF ~openOk
        THEN [ret |-> 1, file |-> out, opens |-> 0, closes |-> 0, lines |-> <<>>]
        ELSE IF writeFailAt \in 1..Len(r.lines)
        THEN [ret |-> 1, file |-> NoFile, opens |-> 1, closes |-> 1, lines |-> <<>>]
        ELSE [ret |-> 0, file |-> File(Concat(r.lines)), opens |-> 1, closes |-> 1,
              lines |-> r.lines]

\* preprocess_aidl: its return value, the output file as it leaves it, and
\* the open and close calls that succeeded. openOk: open succeeds;
\* writeFailAt = k > 0: the k-th write is short.
preprocess_aidl(parsed, out, openOk, writeFailAt, ub) ==
    CHOOSE result \in {PreprocessWrite(r, out, openOk, writeFailAt) :
                           r \in {PreprocessLines(parsed, 1, <<>>, ub)}} : TRUE

\* The inputs of check_types.
ArgChoices == {[type |-> S_ListOfInt, dir |-> "in"], [type |-> S_aB, dir |-> "out"],
               [type |-> S_int, dir |-> "inout"], [type |-> S_ListOfX, dir |-> "in"]}

ReturnTypeChoices == {S_void, S_int, S_X, S_ListOfX}

\* the numbers of arguments of the methods of an interface with at most
\* budget method and argument declarations
RECURSIVE Shapes(_)
Shapes(budget) ==
    {<<>>} \cup
    UNION {{<<n>> \o rest : rest \in Shapes(budget - 1 - n)} : n \in 0..(budget - 1)}

RECURSIVE SumTo(_, _)
SumTo(shape, i) == IF i = 0 THEN 0 ELSE shape[i] + SumTo(shape, i - 1)

MethodHeads(Types) == [name : {"f", "g"}, type : Types, oneway : BOOLEAN]

\* the methods of the shape, without explicit ids: heads gives each method's
\* name, return type and oneway mark, flat the arguments of all the methods
BuildMethods(shape, heads, flat) ==
    [i \in 1..Len(shape) |->
        [name |-> heads[i].name, type |-> heads[i].type, oneway |-> heads[i].oneway,
         args |-> [k \in 1..shape[i] |-> flat[SumTo(shape, i - 1) + k]],
         hasId |-> FALSE, id |-> 0]]

\* the method lists with at most budget method and argument declarations
MethodLists(Types, Args, budget) ==
    UNION {{BuildMethods(shape, heads, flat) :
                heads \in [1..Len(shape) -> MethodHeads(Types)],
                flat \in [1..SumTo(shape, Len(shape)) -> Args]} :
           shape \in Shapes(budget)}

TypesWithB == AddUserType(EmptyTypes, "parcelable", <<<<"a">>>>, <<"B">>).types

PreNames == {"pre1", "pre2"}

PreIdle ==
    /\ fs = [n \in PreNames |-> NoFile]
    /\ fds = [opens |-> 0, closes |-> 0]
    /\ toPreprocess = <<>>
    /\ ppRet = -1
    /\ ppPc = "idle"
    /\ rdIn = NoFile
    /\ rdRet = -1
    /\ rdPc = "idle"

NoInput == [task |-> "none"]

CompileIdle ==
    /\ input = NoInput
    /\ imports = <<>>
    /\ docs = <<>>
    /\ ret = -1

CheckIdle ==
    /\ interface = [oneway |-> FALSE, methods |-> <<>>]
    /\ types = EmptyTypes
    /\ err = 0
    /\ calls = <<>>
    /\ diags = <<>>
    /\ pc = "idle"

IdIdle ==
    /\ items = <<>>
    /\ itemsIn = <<>>
    /\ idRet = -1
    /\ idPc = "idle"

InitTypes ==
    /\ \E shape \in Shapes(MaxDecls) :
           \E heads \in [1..Len(shape) -> MethodHeads(ReturnTypeChoices)],
              flat \in [1..SumTo(shape, Len(shape)) -> ArgChoices],
              oneway \in BOOLEAN :
               interface = [oneway |-> oneway, methods |-> BuildMethods(shape, heads, flat)]
    /\ types = TypesWithB
    /\ err = 0
    /\ calls = <<>>
    /\ diags = <<>>
    /\ pc = "check_types"
    /\ IdIdle
    /\ PreIdle
    /\ CompileIdle

CheckTypes ==
    /\ pc = "check_types"
    /\ \E r \in {check_types(interface, types)} :
           /\ err' = r.err
           /\ types' = r.types
           /\ calls' = r.calls
           /\ diags' = r.diags
    /\ pc' = "checked"
    /\ UNCHANGED interface
    /\ UNCHANGED idVars
    /\ UNCHANGED preVars
    /\ UNCHANGED compileVars

NextTypes == CheckTypes

SpecTypes == InitTypes /\ [][NextTypes]_vars

(***************************************************************************)
(* The preprocess task and the reader of its output.                       *)
(***************************************************************************)
\* what the uninitialised buffers type and fullname may hold
GarbageStrings == {<<>>, S_parcelable, <<"x">>}

\* what a read through the null document may give
UbChoices == {[crash |-> TRUE, item |-> Interface(<<>>, <<"?">>)],
              [crash |-> FALSE, item |-> Interface(<<>>, <<"?">>)],
              [crash |-> FALSE, item |-> Parcelable(<<>>, <<"?">>)]}

L_parcelable_aB == S_parcelable \o <<" ", "a", ".", "B", ";", "\n">>
L_interface_aC == S_interface \o <<" ", "a", ".", "C", ";", "\n">>
L_empty == <<"\n">>
L_comment == <<"/", "/", "x", "\n">>
L_bogus == <<"b", "o", "g", "u", "s", " ", "a", ".", "B", ";", "\n">>
L_parcelable_B == S_parcelable \o <<" ", "B", ";", "\n">>
L_nul == <<NUL, "\n">>
L_parcelable_only == S_parcelable \o <<"\n">>
L_interface_abD == <<" ">> \o S_interface \o <<"\t", "a", ".", "b", ".", "D", " ", ";", "\r", "\n">>

LineChoices == {L_parcelable_aB, L_interface_aC, L_empty, L_comment, L_bogus,
                L_parcelable_B, L_nul, L_parcelable_only, L_interface_abD}

\* the files handed to the preprocess task, by what parsing them gives
DocChoices == {ParseFailed, Parsed(<<>>),
               Parsed(<<Parcelable(<<<<"a">>>>, <<"B">>)>>),
               Parsed(<<Interface(<<<<"a">>>>, <<"C">>)>>),
               Parsed(<<Parcelable(<<>>, <<"B">>)>>),
               Parsed(<<Parcelable(<<<<"a">>>>, <<"B">>), Parcelable(<<<<"a">>>>, <<"D">>)>>),
               Parsed(<<Interface(<<<<"a">>, <<"b">>>>, <<"D">>)>>)}

\* the preprocess task: preprocess_aidl with output_file_name_ = pre1
PreprocessAidl ==
    /\ ppPc = "ready"
    /\ \E openOk \in BOOLEAN, writeFailAt \in 0..Len(toPreprocess), ub \in UbChoices :
           \E r \in {preprocess_aidl(toPreprocess, fs["pre1"], openOk, writeFailAt, ub)} :
               /\ fs' = [fs EXCEPT !["pre1"] = r.file]
               /\ fds' = [opens |-> fds.opens + r.opens, closes |-> fds.closes + r.closes]
               /\ ppRet' = r.ret
    /\ ppPc' = "done"
    /\ UNCHANGED <<toPreprocess, rdIn, rdRet, rdPc>>
    /\ UNCHANGED idVars
    /\ UNCHANGED checkVars
    /\ UNCHANGED compileVars

\* parse_preprocessed_file on pre1, with the namespace of the task
ParsePreprocessedFile ==
    /\ rdPc = "ready"
    /\ \E failAt \in 0..MaxReadError, type0 \in GarbageStrings, fullname0 \in GarbageStrings :
           \E r \in {parse_preprocessed_file(fs["pre1"], types, failAt, type0, fullname0)} :
               /\ types' = r.types
               /\ fds' = [opens |-> fds.opens + r.opens, closes |-> fds.closes + r.closes]
               /\ rdRet' = r.ret
               /\ diags' = IF r.diag = "none" THEN diags ELSE Append(diags, Diag(r.diag, 1, 0))
    /\ rdIn' = fs["pre1"]
    /\ rdPc' = "done"
    /\ UNCHANGED <<fs, toPreprocess, ppRet, ppPc>>
    /\ UNCHANGED idVars
    /\ UNCHANGED <<interface, err, calls, pc>>
    /\ UNCHANGED compileVars

InitPreprocess ==
    /\ fs \in [PreNames -> {NoFile, File(L_interface_aC), File(L_bogus)}]
    /\ fs["pre2"] = NoFile
    /\ fds = [opens |-> 0, closes |-> 0]
    /\ toPreprocess \in SeqsUpTo(DocChoices, MaxFiles)
    /\ ppRet = -1
    /\ ppPc = "ready"
    /\ rdIn = NoFile
    /\ rdRet = -1
    /\ rdPc = "ready"
    /\ IdIdle
    /\ CheckIdle
    /\ CompileIdle

NextPreprocess == PreprocessAidl \/ ParsePreprocessedFile

SpecPreprocess == InitPreprocess /\ [][NextPreprocess]_vars

RECURSIVE LineSeqs(_)
LineSeqs(n) ==
    IF n = 0 THEN {<<>>}
    ELSE LineSeqs(n - 1) \cup {l \o rest : l \in LineChoices, rest \in LineSeqs(n - 1)}

InitRead ==
    /\ fs \in [PreNames -> {NoFile} \cup {File(d) : d \in LineSeqs(MaxLines)}]
    /\ fs["pre2"] = NoFile
    /\ fds = [opens |-> 0, closes |-> 0]
    /\ toPreprocess = <<>>
    /\ ppRet = -1
    /\ ppPc = "idle"
    /\ rdIn = NoFile
    /\ rdRet = -1
    /\ rdPc = "ready"
    /\ IdIdle
    /\ CheckIdle
    /\ CompileIdle

NextRead == ParsePreprocessedFile

SpecRead == InitRead /\ [][NextRead]_vars

(***************************************************************************)
(* check_filename, check_filenames                                         *)
(***************************************************************************)
OS_PATH_SEPARATOR == "/"
S_aidl == <<".", "a", "i", "d", "l">>

\* the file name made absolute: itself when it starts with the separator,
\* else the working directory, a separator when that does not end with one,
\* and the file name
AbsoluteName(filename, cwd) ==
    IF filename # <<>> /\ filename[1] = OS_PATH_SEPARATOR THEN filename
    ELSE IF cwd[Len(cwd)] # OS_PATH_SEPARATOR THEN cwd \o <<OS_PATH_SEPARATOR>> \o filename
    ELSE cwd \o filename

\* every '.' of the string replaced by the separator
DotsToSeparators(str) == [i \in 1..Len(str) |-> IF str[i] = "." THEN OS_PATH_SEPARATOR ELSE str[i]]

\* name.substr(0, name.find('.'))
UpToFirstDot(name) ==
    LET dot == IndexOf(name, ".", 1)
    IN  IF dot = 0 THEN name ELSE SubSeq(name, 1, dot - 1)

\* the file name check_filename expects: package as a path, name, ".aidl"
ExpectedFileName(package, name) ==
    DotsToSeparators(IF package # <<>> THEN package \o <<".">> ELSE <<>>)
        \o UpToFirstDot(name) \o S_aidl

EndsWithSameLength(fn, expected) == Len(fn) >= Len(expected)

\* len >= expected.length() and expected == the last expected.length() bytes
EndsWith(fn, expected) ==
    /\ Len(fn) >= Len(expected)
    /\ SubSeq(fn, Len(fn) - Len(expected) + 1, Len(fn)) = expected

\* check_filename on Linux; package is GetPackage(), the dotted string
check_filename(filename, package, name, cwd) ==
    EndsWith(AbsoluteName(filename, cwd), ExpectedFileName(package, name))

\* check_filenames: true for a null document, the interface's check for an
\* interface, else the conjunction of the checks of all the parcelables
check_filenames(filename, doc, cwd) ==
    IF doc = <<>> THEN TRUE
    ELSE IF doc[1].item_type = "INTERFACE_TYPE_BINDER"
    THEN check_filename(filename, Join(doc[1].package), doc[1].name, cwd)
    ELSE \A i \in 1..Len(doc) : check_filename(filename, Join(doc[i].package), doc[i].name, cwd)

(***************************************************************************)
(* load_and_validate_aidl, compile_aidl_to_cpp, compile_aidl_to_java       *)
(***************************************************************************)
\* err |= r for r in {0, 1}
BitOr(e, r) == IF r = 0 \/ e % 2 = 1 THEN e ELSE e + 1

Digits == {"0", "1", "2", "3", "4", "5", "6", "7", "8", "9"}

\* IsValidPackage: every dotted component is an identifier
IsValidPackage(package) ==
    \A i \in 1..Len(package) : package[i] # <<>> /\ package[i][1] \notin Digits

RECURSIVE LoadLoopStopping(_, _, _, _, _)
LoadLoopStopping(st, files, i, failAt, garbage) ==
    IF i > Len(files) \/ st.err # 0 THEN st
    ELSE CHOOSE result \in
             {LoadLoopStopping([err |-> BitOr(st.err, r.ret),
                                types |-> r.types,
                                opens |-> st.opens + r.opens,
                                closes |-> st.closes + r.closes,
                                calls |-> Append(st.calls, Call("parse_preprocessed_file", i, 0, 0, r.ret = 0)),
                                diags |-> IF r.diag = "none" THEN st.diags
                                          ELSE Append(st.diags, Diag(r.diag, i, 0))],
                               files, i + 1, failAt, garbage) :
                  r \in {parse_preprocessed_file(fs[files[i]], st.types, failAt[i],
                                                 garbage.type, garbage.fullname)}} : TRUE

\* the loop over preprocessed_files from file i on: every file is read, and
\* the results are or-ed into err
RECURSIVE LoadLoop(_, _, _, _, _)
LoadLoop(st, files, i, failAt, garbage) ==
    IF i > Len(files) THEN st
    ELSE CHOOSE result \in
             {LoadLoop([err |-> BitOr(st.err, r.ret),
                        types |-> r.types,
                        opens |-> st.opens + r.opens,
                        closes |-> st.closes + r.closes,
                        calls |-> Append(st.calls, Call("parse_preprocessed_file", i, 0, 0, r.ret = 0)),
                        diags |-> IF r.diag = "none" THEN st.diags
                                  ELSE Append(st.diags, Diag(r.diag, i, 0))],
                       files, i + 1, failAt, garbage) :
                  r \in {parse_preprocessed_file(fs[files[i]], st.types, failAt[i],
                                                 garbage.type, garbage.fullname)}} : TRUE

\* "import the preprocessed file", and the return that follows it. A
\* preprocess task of the same build has run before the compile task starts.
LoadPreprocessed ==
    /\ pc = "start"
    /\ ppPc # "ready"
    /\ \E failAt \in [1..Len(input.preprocessed_files) -> 0..MaxReadError], garbage \in [type : GarbageStrings, fullname : GarbageStrings] :
           \E r \in {LoadLoop([err |-> 0, types |-> types, opens |-> fds.opens,
                              closes |-> fds.closes, calls |-> calls, diags |-> diags],
                             input.preprocessed_files, 1, failAt, garbage)} :
               /\ err' = r.err
               /\ types' = r.types
               /\ fds' = [opens |-> r.opens, closes |-> r.closes]
               /\ calls' = r.calls
               /\ diags' = r.diags
               /\ pc' = IF r.err # 0 THEN "failed_load" ELSE "loaded"
               /\ ret' = IF r.err # 0 THEN r.err ELSE ret
    /\ rdIn' = fs["pre1"]
    /\ UNCHANGED <<interface, input, imports, docs>>
    /\ UNCHANGED <<fs, toPreprocess, ppRet, ppPc, rdRet, rdPc>>
    /\ UNCHANGED idVars

FilenameErrorIgnored(e, valid) == e

\* if (!check_filename(...)) err |= 1
FilenameError(e, valid) == IF valid THEN e ELSE BitOr(e, 1)

\* "parse the input file": ParseFile, the test for exactly one interface, and
\* check_filename
ParsePrimary ==
    /\ pc = "loaded"
    /\ LET p == input.primary
           isInterface == p.ok /\ p.doc # <<>> /\ p.doc[1].item_type = "INTERFACE_TYPE_BINDER"
           valid == check_filename(input.input_file_name, Join(p.doc[1].package),
                                   p.doc[1].name, input.cwd)
       IN  /\ calls' = Append(calls, Call("ParseFile", 0, 0, 0, p.ok))
           /\ IF ~isInterface
              THEN /\ pc' = "failed_parse"
                   /\ ret' = 1
                   /\ diags' = IF p.ok THEN Append(diags, Diag("not_one_interface", 0, 0)) ELSE diags
                   /\ UNCHANGED <<interface, err, imports, docs>>
              ELSE /\ pc' = "parsed"
                   /\ interface' = p.doc[1]
                   /\ imports' = [i \in 1..Len(p.imports) |-> [needed |-> p.imports[i], filename |-> <<>>]]
                   /\ docs' = [i \in 1..Len(p.imports) |-> <<>>]
                   /\ err' = FilenameError(err, valid)
                   /\ diags' = IF valid THEN diags ELSE Append(diags, Diag("filename", 0, 0))
                   /\ UNCHANGED ret
    /\ UNCHANGED <<types, input>>
    /\ UNCHANGED preVars
    /\ UNCHANGED idVars

SkipKnownImportNever(ns, needed) == FALSE

\* if (types->HasType(import->GetNeededClass())) continue
SkipKnownImport(ns, needed) == HasType(ns, needed)

\* the body of the loop over the imports, for import i
ResolveImport(st, i) ==
    LET needed == st.imports[i].needed
        import_path == input.resolve[needed]
        parsed == input.importDocs[needed]
        valid == check_filenames(import_path, parsed.doc, input.cwd)
        found == [st EXCEPT !.calls = Append(@, Call("FindImportFile", i, 0, 0, import_path # <<>>))]
    IN  IF SkipKnownImport(types, needed) THEN st
        ELSE IF import_path = <<>>
        THEN [found EXCEPT !.err = BitOr(@, 1), !.diags = Append(@, Diag("import_not_found", i, 0))]
        ELSE IF ~parsed.ok
        THEN [found EXCEPT !.imports[i].filename = import_path,
                           !.calls = Append(@, Call("ParseFile", i, 0, 0, FALSE)),
                           !.err = BitOr(@, 1),
                           !.diags = Append(@, Diag("import_parse", i, 0))]
        ELSE [found EXCEPT !.imports[i].filename = import_path,
                           !.calls = Append(@, Call("ParseFile", i, 0, 0, TRUE)),
                           !.err = FilenameError(@, valid),
                           !.diags = IF valid THEN @ ELSE Append(@, Diag("filename", i, 0)),
                           !.docs[i] = parsed.doc]

RECURSIVE ResolveLoopStopping(_, _)
ResolveLoopStopping(st, i) ==
    IF i > Len(st.imports) \/ st.err # 0 THEN st
    ELSE CHOOSE result \in {ResolveLoopStopping(st1, i + 1) : st1 \in {ResolveImport(st, i)}} : TRUE

RECURSIVE ResolveLoop(_, _)
ResolveLoop(st, i) ==
    IF i > Len(st.imports) THEN st
    ELSE CHOOSE result \in {ResolveLoop(st1, i + 1) : st1 \in {ResolveImport(st, i)}} : TRUE

\* "parse the imports of the input file", and the return that follows it
ResolveImports ==
    /\ pc = "parsed"
    /\ \E r \in {ResolveLoop([err |-> err, imports |-> imports, docs |-> docs,
                             calls |-> calls, diags |-> diags], 1)} :
           /\ err' = r.err
           /\ imports' = r.imports
           /\ docs' = r.docs
           /\ calls' = r.calls
           /\ diags' = r.diags
           /\ pc' = IF r.err # 0 THEN "failed_imports" ELSE "resolved"
           /\ ret' = IF r.err # 0 THEN r.err ELSE ret
    /\ UNCHANGED <<interface, types, input>>
    /\ UNCHANGED preVars
    /\ UNCHANGED idVars

\* the loop over the imports of "gather the types that have been declared"
RECURSIVE GatherImports(_, _)
GatherImports(st, i) ==
    IF i > Len(docs) THEN st
    ELSE CHOOSE result \in
             {GatherImports([err |-> IF g.ok THEN st.err ELSE BitOr(st.err, 1),
                             types |-> g.types,
                             diags |-> IF g.ok THEN st.diags
                                       ELSE Append(st.diags, Diag("gather_failed", i, 0))],
                            i + 1) :
                  g \in {gather_types(docs[i], st.types)}} : TRUE

\* "gather the types that have been declared": the primary document, then
\* the document of every import
RegisterTypes ==
    /\ pc = "resolved"
    /\ \E g \in {gather_types(<<interface>>, types)} :
       \E r \in {GatherImports([err |-> IF g.ok THEN err ELSE BitOr(err, 1),
                                types |-> g.types,
                                diags |-> IF g.ok THEN diags
                                          ELSE Append(diags, Diag("gather_failed", 0, 0))], 1)} :
           /\ err' = r.err
           /\ types' = r.types
           /\ diags' = r.diags
    /\ pc' = "registered"
    /\ UNCHANGED <<interface, calls, input, imports, docs, ret>>
    /\ UNCHANGED preVars
    /\ UNCHANGED idVars

\* IsValidPackage, check_types, check_and_assign_method_ids, and the return
\* of load_and_validate_aidl
Validate ==
    /\ pc = "registered"
    /\ \E pkgOk \in {IsValidPackage(interface.package)},
          ct \in {check_types(interface, types)},
          ids \in {check_and_assign_method_ids(interface.methods)} :
       \E e3 \in {BitOr(BitOr(IF pkgOk THEN err ELSE err + 1, ct.err), ids.ret)} :
           /\ err' = e3
           /\ types' = ct.types
           /\ calls' = calls \o ct.calls
           /\ diags' = (IF pkgOk THEN diags ELSE Append(diags, Diag("package", 0, 0)))
                           \o ct.diags
                           \o (IF ids.ret = 0 THEN <<>> ELSE <<Diag("method_ids", 0, 0)>>)
           /\ interface' = [interface EXCEPT !.methods = ids.items]
           /\ pc' = IF e3 # 0 THEN "failed_validate" ELSE "validated"
           /\ ret' = IF e3 # 0 THEN e3 ELSE ret
    /\ UNCHANGED <<input, imports, docs>>
    /\ UNCHANGED preVars
    /\ UNCHANGED idVars

\* the rest of compile_aidl_to_cpp and compile_aidl_to_java after
\* load_and_validate_aidl returned 0: the backend is called and its result is
\* the result of the task
Emit ==
    /\ pc = "validated"
    /\ \E ok \in BOOLEAN :
           /\ calls' = Append(calls, Call(IF input.task = "cpp" THEN "GenerateCpp" ELSE "generate_java",
                                          0, 0, 0, ok))
           /\ ret' = IF ok THEN 0 ELSE 1
    /\ pc' = "emitted"
    /\ UNCHANGED <<interface, types, err, diags, input, imports, docs>>
    /\ UNCHANGED preVars
    /\ UNCHANGED idVars

NextCompile ==
    \/ LoadPreprocessed
    \/ ParsePrimary
    \/ ResolveImports
    \/ RegisterTypes
    \/ Validate
    \/ Emit

(***************************************************************************)
(* The inputs of the compile tasks.                                        *)
(***************************************************************************)
S_aC == <<"a", ".", "C">>
S_B == <<"B">>
ImportNames == {S_aB, S_aC, S_B}

P_w == <<"/", "w">>
P_a_I == <<"a", "/", "I">> \o S_aidl
P_w_a_I == P_w \o <<"/">> \o P_a_I
P_x_I == <<"x", "/", "I">> \o S_aidl
P_s_a_B == <<"/", "s", "/", "a", "/", "B">> \o S_aidl
P_s_a_C == <<"/", "s", "/", "a", "/", "C">> \o S_aidl
P_s_B == <<"/", "s", "/", "B">> \o S_aidl

Method(name, type, oneway, args, hasId, id) == [name |-> name, type |-> type, oneway |-> oneway, args |-> args, hasId |-> hasId, id |-> id]
Arg(type, dir) == [type |-> type, dir |-> dir]

InterfaceDoc(package, name, oneway, methods) == [item_type |-> "INTERFACE_TYPE_BINDER", package |-> package, name |-> name, oneway |-> oneway, methods |-> methods]

\* what ParseFile, GetDocument and GetImports give for the primary file
PrimaryFailed == [ok |-> FALSE, doc |-> <<>>, imports |-> <<>>]
PrimaryParsed(doc, imps) == [ok |-> TRUE, doc |-> doc, imports |-> imps]

MethodsGood == <<Method("f", S_int, FALSE, <<Arg(S_int, "in")>>, FALSE, 0), Method("g", S_void, TRUE, <<>>, FALSE, 0)>>
MethodsOnewayBad == <<Method("f", S_int, TRUE, <<>>, FALSE, 0)>>
MethodsMixedIds == <<Method("f", S_void, FALSE, <<>>, TRUE, 3), Method("g", S_void, FALSE, <<>>, FALSE, 0)>>
MethodsUsingB == <<Method("f", S_void, FALSE, <<Arg(S_aB, "out")>>, FALSE, 0)>>

ImportLists == {<<>>, <<S_aB>>, <<S_aB, S_aC>>}

PrimaryChoices ==
    {PrimaryFailed, PrimaryParsed(<<>>, <<>>),
     PrimaryParsed(<<Parcelable(<<<<"a">>>>, <<"I">>)>>, <<>>)}
    \cup {PrimaryParsed(<<InterfaceDoc(pkg, <<"I">>, FALSE, ms)>>, imps) :
              pkg \in {<<<<"a">>>>, <<<<"9">>>>},
              ms \in {MethodsGood, MethodsOnewayBad, MethodsMixedIds, MethodsUsingB},
              imps \in ImportLists}

\* what FindImportFile gives for each class, and ParseFile for that file
Resolutions ==
    {[c \in ImportNames |-> IF c \in found THEN (IF c = S_aB THEN P_s_a_B ELSE IF c = S_aC THEN P_s_a_C ELSE P_s_B) ELSE <<>>] :
         found \in {{}, {S_aC}, {S_aB, S_aC, S_B}}}

ImportDocChoices ==
    {[c \in ImportNames |-> IF c = S_aB THEN b
                            ELSE IF c = S_aC THEN Parsed(<<Interface(<<<<"a">>>>, <<"C">>)>>)
                            ELSE Parsed(<<Parcelable(<<>>, <<"B">>)>>)] :
         b \in {ParseFailed, Parsed(<<Parcelable(<<<<"a">>>>, <<"B">>)>>),
                Parsed(<<Parcelable(<<<<"a">>>>, <<"D">>)>>)}}

EnvChoices == {[resolve |-> r, importDocs |-> d] : r \in Resolutions, d \in ImportDocChoices}

\* compile_aidl_to_cpp passes no preprocessed files
TaskChoices ==
    {[task |-> "cpp", preprocessed_files |-> <<>>]}
    \cup {[task |-> "java", preprocessed_files |-> f] :
              f \in {<<>>, <<"pre1">>, <<"pre1", "pre2">>}}

FsChoices ==
    {[n \in PreNames |-> IF n = "pre1" THEN f1 ELSE f2] :
         f1 \in {NoFile, File(L_parcelable_aB), File(L_bogus)},
         f2 \in {NoFile, File(L_interface_aC), File(L_parcelable_aB)}}

Inputs(Tasks, Names, Cwds, Primaries, Envs) ==
    {[task |-> t.task, preprocessed_files |-> t.preprocessed_files,
      input_file_name |-> n, cwd |-> c, primary |-> p,
      resolve |-> e.resolve, importDocs |-> e.importDocs] :
         t \in Tasks, n \in Names, c \in Cwds, p \in Primaries, e \in Envs}

\* a compile task about to start, with no preprocess task beside it
CompileStart ==
    /\ interface = [oneway |-> FALSE, methods |-> <<>>]
    /\ types = EmptyTypes
    /\ err = 0
    /\ calls = <<>>
    /\ diags = <<>>
    /\ pc = "start"
    /\ imports = <<>>
    /\ docs = <<>>
    /\ ret = -1
    /\ fds = [opens |-> 0, closes |-> 0]
    /\ rdIn = NoFile
    /\ rdRet = -1
    /\ rdPc = "idle"
    /\ IdIdle

NoPreprocessTask ==
    /\ toPreprocess = <<>>
    /\ ppRet = -1
    /\ ppPc = "idle"

InitCompile ==
    /\ input \in Inputs(TaskChoices, {P_w_a_I, P_x_I}, {P_w}, PrimaryChoices, EnvChoices)
    /\ fs \in FsChoices
    /\ (input.preprocessed_files = <<>> => fs = [n \in PreNames |-> NoFile])
    /\ CompileStart
    /\ NoPreprocessTask

SpecCompile == InitCompile /\ [][NextCompile]_vars

\* The compile of interfaces of every shape, all else being in order.
OnewayArgChoices == {Arg(S_int, "in"), Arg(S_ListOfInt, "out"), Arg(S_ListOfInt, "inout")}

OnewayPrimaries ==
    {PrimaryParsed(<<InterfaceDoc(<<<<"a">>>>, <<"I">>, ow, ms)>>, <<>>) :
         ow \in BOOLEAN, ms \in MethodLists({S_void, S_int}, OnewayArgChoices, MaxDecls)}

PlainTask == {[task |-> "java", preprocessed_files |-> <<>>]}

InitOneway ==
    /\ input \in Inputs(PlainTask, {P_w_a_I}, {P_w}, OnewayPrimaries,
                        {[resolve |-> r, importDocs |-> d] : r \in Resolutions, d \in ImportDocChoices})
    /\ input.resolve[S_aB] # <<>>
    /\ input.importDocs[S_aB].ok
    /\ fs = [n \in PreNames |-> NoFile]
    /\ CompileStart
    /\ NoPreprocessTask

SpecOneway == InitOneway /\ [][NextCompile]_vars

\* The compile of an interface without methods from files of many names.
P_I == <<"I">> \o S_aidl
P_w_b_I == P_w \o <<"/", "b", "/", "I">> \o S_aidl
P_w_aI == P_w \o <<"/", "a", "I">> \o S_aidl
P_xa_I == <<"x">> \o P_a_I
P_w_a_i == P_w \o <<"/", "a", "/", "i">> \o S_aidl
P_w_a_b_I == P_w \o <<"/", "a", "/", "b", "/", "I">> \o S_aidl
P_b_I == <<"b", "/", "I">> \o S_aidl
P_w_a_I_java == P_w \o <<"/", "a", "/", "I", ".", "j", "a", "v", "a">>

FileNameChoices == {P_w_a_I, P_a_I, P_I, P_w_b_I, P_w_aI, P_xa_I, P_w_a_i, P_w_a_b_I,
                    P_b_I, P_w_a_I_java, <<>>}

CwdChoices == {P_w, P_w \o <<"/">>, <<"/">>, P_w \o <<"/", "a">>}

FilenamePrimaries ==
    {PrimaryParsed(<<InterfaceDoc(pkg, <<"I">>, FALSE, <<>>)>>, <<>>) :
         pkg \in {<<>>, <<<<"a">>>>, <<<<"a">>, <<"b">>>>}}

InitFilename ==
    /\ input \in Inputs(PlainTask, FileNameChoices, CwdChoices, FilenamePrimaries,
                        {[resolve |-> r, importDocs |-> d] : r \in Resolutions, d \in ImportDocChoices})
    /\ input.resolve[S_aB] # <<>>
    /\ input.importDocs[S_aB].ok
    /\ fs = [n \in PreNames |-> NoFile]
    /\ CompileStart
    /\ NoPreprocessTask

SpecFilename == InitFilename /\ [][NextCompile]_vars

\* The preprocess task on files of the build, then the compile of a primary
\* file that imports what they declare, with the output among its
\* preprocessed files.
RoundTripPrimaries ==
    {PrimaryParsed(<<InterfaceDoc(<<<<"a">>>>, <<"I">>, FALSE, ms)>>, imps) :
         ms \in {MethodsGood, MethodsUsingB},
         imps \in {<<S_aB>>, <<S_aC>>, <<S_B>>, <<S_aB, S_aC>>}}

InitRoundTrip ==
    /\ input \in Inputs({[task |-> "java", preprocessed_files |-> <<"pre1">>]}, {P_w_a_I}, {P_w},
                        RoundTripPrimaries,
                        {[resolve |-> r, importDocs |-> d] : r \in Resolutions, d \in ImportDocChoices})
    /\ input.resolve[S_aC] = input.resolve[S_aB]
    /\ input.importDocs[S_aB].ok
    /\ fs \in [PreNames -> {NoFile, File(L_bogus)}]
    /\ fs["pre2"] = NoFile
    /\ toPreprocess \in SeqsUpTo(DocChoices, MaxFiles)
    /\ ppRet = -1
    /\ ppPc = "ready"
    /\ CompileStart

NextRoundTrip == PreprocessAidl \/ NextCompile

SpecRoundTrip == InitRoundTrip /\ [][NextRoundTrip]_vars

InitIds ==
    /\ items \in SeqsUpTo(IdMethods, MaxMethods)
    /\ itemsIn = items
    /\ idRet = -1
    /\ idPc = "ready"
    /\ CheckIdle
    /\ PreIdle
    /\ CompileIdle

CheckAndAssignMethodIds ==
    /\ idPc = "ready"
    /\ \E r \in {check_and_assign_method_ids(items)} :
           /\ items' = r.items
           /\ idRet' = r.ret
    /\ idPc' = "done"
    /\ UNCHANGED itemsIn
    /\ UNCHANGED checkVars
    /\ UNCHANGED preVars
    /\ UNCHANGED compileVars

NextIds == CheckAndAssignMethodIds

SpecIds == InitIds /\ [][NextIds]_vars

----------------------------------------------------------------------------
NoneHasId(its) == \A k \in 1..Len(its) : ~its[k].hasId
AllHaveId(its) == \A k \in 1..Len(its) : its[k].hasId
DistinctIds(its) == \A j, k \in 1..Len(its) : j # k => its[j].id # its[k].id
IdsInBounds(its) == \A k \in 1..Len(its) : its[k].id \in 0..16777214

\* C1: check_and_assign_method_ids returns 0 exactly when no method has an
\* explicit id, or every method has one and the ids are pairwise distinct and
\* each within [0, 16777214]; for every other method list it returns non-zero.
C1_ReturnsZeroIff ==
    idPc = "done" =>
        (idRet = 0 <=> \/ NoneHasId(itemsIn)
                       \/ /\ AllHaveId(itemsIn)
                          /\ DistinctIds(itemsIn)
                          /\ IdsInBounds(itemsIn))

\* a mixed list, a duplicate, and an out-of-bounds id have each been rejected,
\* and a list whose only id is the upper limit has been accepted
C1_Witness ==
    /\ idPc = "done"
    /\ idRet = 0
    /\ Len(itemsIn) = 2
    /\ AllHaveId(itemsIn)
    /\ itemsIn[2].id = 16777214

\* C2: with no explicit id, after a successful call the k-th declared method
\* (counting from 0) has id k.
C2_SequentialIds ==
    (idPc = "done" /\ NoneHasId(itemsIn)) =>
        /\ idRet = 0
        /\ Len(items) = Len(itemsIn)
        /\ \A k \in 1..Len(items) : items[k].id = k - 1

C2_Witness ==
    /\ idPc = "done"
    /\ idRet = 0
    /\ NoneHasId(itemsIn)
    /\ Len(items) = MaxMethods
    /\ items[MaxMethods].id = MaxMethods - 1
----------------------------------------------------------------------------
HasCall(op, mi, ai) == \E i \in 1..Len(calls) : calls[i].op = op /\ calls[i].m = mi /\ calls[i].a = ai
CallOk(op, mi, ai) == \E i \in 1..Len(calls) : calls[i].op = op /\ calls[i].m = mi /\ calls[i].a = ai /\ calls[i].ok
HasDiag(kind, mi, ai) == \E i \in 1..Len(diags) : diags[i] = Diag(kind, mi, ai)
MethodIsOneway(mi) == interface.oneway \/ interface.methods[mi].oneway
ArgIsOutOrInout(mi, ai) == interface.methods[mi].args[ai].dir \in {"out", "inout"}
NameSeenBefore(mi) == \E j \in 1..(mi - 1) : interface.methods[j].name = interface.methods[mi].name
MethodIndices == 1..Len(interface.methods)
ArgIndices(mi) == 1..Len(interface.methods[mi].args)

\* the oneway checks and the duplicate-name check are made for every method
\* and argument, and each reports exactly the violations there are
OnewayAndDuplicateChecksDone ==
    \A mi \in MethodIndices :
        /\ HasDiag("oneway_return", mi, 0)
               <=> (MethodIsOneway(mi) /\ interface.methods[mi].type # S_void)
        /\ HasDiag("redefine", mi, 0) <=> NameSeenBefore(mi)
        /\ \A ai \in ArgIndices(mi) :
               HasDiag("oneway_out", mi, ai) <=> (MethodIsOneway(mi) /\ ArgIsOutOrInout(mi, ai))

\* the result is non-zero iff a call returned false or a diagnostic was written
ErrIffSomeCheckFailed ==
    (err # 0) <=> (diags # <<>> \/ \E i \in 1..Len(calls) : ~calls[i].ok)

\* C8 as stated: every check of every method and argument is performed even
\* after an earlier failure, and every failure reaches the result.
C8_AllChecksPerformed ==
    pc = "checked" =>
        /\ \A mi \in MethodIndices :
               /\ HasCall("MaybeAddContainerType", mi, 0)
               /\ HasCall("IsValidReturnType", mi, 0)
               /\ \A ai \in ArgIndices(mi) :
                      /\ HasCall("MaybeAddContainerType", mi, ai)
                      /\ HasCall("IsValidArg", mi, ai)
        /\ OnewayAndDuplicateChecksDone
        /\ ErrIffSomeCheckFailed

\* C8 amended: every method and argument is visited even after an earlier
\* failure; the container registration, the oneway checks and the
\* duplicate-name check are always performed; the validity check of a type is
\* performed exactly when its container registration succeeded; the result is
\* non-zero iff a performed check failed.
C8_ChecksPerformedUnlessContainerFailed ==
    pc = "checked" =>
        /\ \A mi \in MethodIndices :
               /\ HasCall("MaybeAddContainerType", mi, 0)
               /\ HasCall("IsValidReturnType", mi, 0)
                      <=> CallOk("MaybeAddContainerType", mi, 0)
               /\ \A ai \in ArgIndices(mi) :
                      /\ HasCall("MaybeAddContainerType", mi, ai)
                      /\ HasCall("IsValidArg", mi, ai)
                             <=> CallOk("MaybeAddContainerType", mi, ai)
        /\ OnewayAndDuplicateChecksDone
        /\ ErrIffSomeCheckFailed

\* the container registration of the first method's return type failed, its
\* validity check was not made, and the checks of a later method were still
\* made and reported a oneway violation and a redefinition
C8_Witness ==
    /\ pc = "checked"
    /\ Len(interface.methods) >= 2
    /\ HasCall("MaybeAddContainerType", 1, 0)
    /\ ~CallOk("MaybeAddContainerType", 1, 0)
    /\ ~HasCall("IsValidReturnType", 1, 0)
    /\ HasCall("IsValidReturnType", 2, 0)
    /\ HasDiag("oneway_return", 2, 0)
    /\ HasDiag("redefine", 2, 0)

\* C9: the k-th argument of a method is checked with position k, from 1.
C9_ArgPositions ==
    pc = "checked" =>
        \A i \in 1..Len(calls) :
            calls[i].op = "IsValidArg" => calls[i].index = calls[i].a
----------------------------------------------------------------------------
FailedPcs == {"failed_load", "failed_parse", "failed_imports", "failed_validate"}
Backends == {"GenerateCpp", "generate_java"}
BackendInvoked == \E i \in 1..Len(calls) : calls[i].op \in Backends
ErrorRecorded == diags # <<>> \/ \E i \in 1..Len(calls) : calls[i].op \notin Backends /\ ~calls[i].ok

\* C3: when load_and_validate_aidl has returned 0, every method that is
\* oneway itself or belongs to a oneway interface returns void and has no
\* out or inout argument.
C3_OnewayMethods ==
    pc \in {"validated", "emitted"} =>
        \A mi \in MethodIndices :
            MethodIsOneway(mi) =>
                /\ interface.methods[mi].type = S_void
                /\ \A ai \in ArgIndices(mi) : ~ArgIsOutOrInout(mi, ai)

\* a oneway interface whose first method is not marked oneway and has an
\* argument has been accepted
C3_Witness ==
    /\ pc = "validated"
    /\ interface.oneway
    /\ Len(interface.methods) = 2
    /\ ~interface.methods[1].oneway
    /\ Len(interface.methods[1].args) >= 1

\* C4: the backend is called only when no earlier phase recorded an error and
\* the cumulative result is 0; once an error has been recorded the compile
\* never reaches the emit step, and where it stops its result is non-zero.
C4_EmitOnlyWithoutErrors ==
    /\ (BackendInvoked \/ pc \in {"validated", "emitted"}) => (err = 0 /\ ~ErrorRecorded)
    /\ BackendInvoked =>
           /\ pc = "emitted"
           /\ calls[Len(calls)].op = (IF input.task = "cpp" THEN "GenerateCpp" ELSE "generate_java")
    /\ ErrorRecorded =>
           /\ ~BackendInvoked
           /\ pc \in FailedPcs \cup {"parsed", "registered"}
           /\ pc \in {"parsed", "registered"} => err # 0
    /\ pc \in FailedPcs => (ret # 0 /\ ErrorRecorded)

\* the file name check failed, the imports were still looked up, and the
\* compile stopped with a non-zero result before the backend
C4_Witness ==
    /\ pc = "failed_imports"
    /\ HasDiag("filename", 0, 0)
    /\ HasCall("FindImportFile", 2, 0)
    /\ ret # 0
    /\ ~BackendInvoked

RECURSIVE PackageAsPath(_)
PackageAsPath(components) ==
    IF components = <<>> THEN <<>>
    ELSE components[1] \o <<"/">> \o PackageAsPath(Tail(components))

\* package_as_path/InterfaceName.aidl for the primary file's interface
ExpectedTail ==
    PackageAsPath(input.primary.doc[1].package) \o input.primary.doc[1].name \o S_aidl

AbsolutePrimary == AbsoluteName(input.input_file_name, input.cwd)

TailMatches ==
    \E k \in 1..(Len(AbsolutePrimary) + 1) :
        SubSeq(AbsolutePrimary, k, Len(AbsolutePrimary)) = ExpectedTail

\* C5: when load_and_validate_aidl has returned 0 the absolute path of the
\* primary file ends with package_as_path/InterfaceName.aidl, compared byte
\* for byte; a primary file with another tail gives a non-zero result.
C5_FilenameTail ==
    /\ pc \in {"validated", "emitted"} => TailMatches
    /\ (pc \notin {"start", "loaded", "parsed"} /\ ~TailMatches) => (pc \in FailedPcs /\ ret # 0)

\* a relative name, made absolute with the working directory, matched a
\* package of two components
C5_Witness ==
    /\ pc = "emitted"
    /\ input.input_file_name = P_b_I
    /\ input.cwd = P_w \o <<"/", "a">>
    /\ Len(input.primary.doc[1].package) = 2

\* the preprocess task succeeded on one file F with a declaration, and the
\* compile task has read its output without an I/O error
RoundTripCase ==
    /\ ppPc = "done"
    /\ ppRet = 0
    /\ Len(toPreprocess) = 1
    /\ toPreprocess[1].doc # <<>>
    /\ pc # "start"
    /\ \A k \in 1..Len(diags) : diags[k].kind # "read_error"

C7_OpensClosed == fds.closes = fds.opens

DeclarationLine(d) ==
    (IF d.item_type = "USER_DATA_TYPE" THEN S_parcelable ELSE S_interface)
        \o <<" ">> \o CanonicalName(d.package, d.name) \o <<";", "\n">>

RECURSIVE DeclarationLines(_)
DeclarationLines(doc) ==
    IF doc = <<>> THEN <<>> ELSE DeclarationLine(doc[1]) \o DeclarationLines(Tail(doc))

RECURSIVE AllDeclarationLines(_)
AllDeclarationLines(parsed) ==
    IF parsed = <<>> THEN <<>>
    ELSE DeclarationLines(parsed[1].doc) \o AllDeclarationLines(Tail(parsed))

\* C10: after a successful preprocess task on files that each hold a
\* declaration, the output holds one line for every declaration of every
\* input file, in input order.
C10_OneLinePerDeclaration ==
    (ppPc = "done" /\ ppRet = 0 /\ \A i \in 1..Len(toPreprocess) : toPreprocess[i].doc # <<>>) =>
        fs["pre1"] = File(AllDeclarationLines(toPreprocess))

\* C15: when check_and_assign_method_ids returns non-zero, and when it
\* succeeds on methods that all have an explicit id, every method's id and
\* has-id status is as it was before the call.
C15_IdsUnchanged ==
    (idPc = "done" /\ (idRet # 0 \/ AllHaveId(itemsIn))) => items = itemsIn

\* a list that mixes an explicit id with an implicit one has been rejected
\* and is as it was
C15_Witness ==
    /\ idPc = "done"
    /\ idRet # 0
    /\ Len(itemsIn) = 2
    /\ itemsIn[1].hasId
    /\ itemsIn[1].id = 1
    /\ ~itemsIn[2].hasId
    /\ items = itemsIn

NewlineCount(data) == Cardinality({i \in 1..Len(data) : data[i] = "\n"})

\* C11: a run of the preprocess task that meets a parse failure returns
\* non-zero and leaves the output file and the handles as they were; a run
\* that returns non-zero after the output was opened has closed and unlinked
\* it; a run that returns 0 has opened the output once, written one whole
\* line for every input file, and closed it.
C11_NoPartialOutput ==
    [][(ppPc = "ready" /\ ppPc' = "done") =>
          /\ (\E i \in 1..Len(toPreprocess) : ~toPreprocess[i].ok) =>
                 (ppRet' # 0 /\ fs' = fs /\ fds' = fds)
          /\ ppRet' # 0 =>
                 \/ fs' = fs /\ fds' = fds
                 \/ /\ fs'["pre1"] = NoFile
                    /\ fds' = [opens |-> fds.opens + 1, closes |-> fds.closes + 1]
          /\ ppRet' = 0 =>
                 /\ fs'["pre1"].exists
                 /\ NewlineCount(fs'["pre1"].data) = Len(toPreprocess)
                 /\ (Len(toPreprocess) > 0 =>
                        fs'["pre1"].data[Len(fs'["pre1"].data)] = "\n")
                 /\ fds' = [opens |-> fds.opens + 1, closes |-> fds.closes + 1]]_vars

\* a write of the task failed after the output was opened: the output was
\* closed and is gone, and the result is non-zero
C11_Witness ==
    /\ ppPc = "done"
    /\ rdPc = "ready"
    /\ ppRet # 0
    /\ Len(toPreprocess) = 2
    /\ fds = [opens |-> 1, closes |-> 1]
    /\ fs["pre1"] = NoFile

Range(s) == {s[i] : i \in DOMAIN s}

\* the lines of a file, each with its newline
RECURSIVE FileLines(_)
FileLines(data) ==
    IF data = <<>> THEN <<>>
    ELSE LET nl == IndexOf(data, "\n", 1)
             end == IF nl = 0 THEN Len(data) ELSE nl
         IN  <<SubSeq(data, 1, end)>> \o FileLines(SubSeq(data, end + 1, Len(data)))

\* the entry a well-formed declaration line stands for
DeclaredEntry(line) ==
    IF line = L_parcelable_aB THEN [kind |-> "parcelable", name |-> S_aB]
    ELSE IF line = L_interface_aC THEN [kind |-> "interface", name |-> <<"a", ".", "C">>]
    ELSE IF line = L_parcelable_B THEN [kind |-> "parcelable", name |-> <<"B">>]
    ELSE [kind |-> "interface", name |-> <<"a", ".", "b", ".", "D">>]

DeclarationLineChoices == {L_parcelable_aB, L_interface_aC, L_parcelable_B, L_interface_abD}

\* the file read holds only empty lines, comment lines and declaration lines
\* of distinct types, and was read without an I/O error
ReadOfWellFormedFile ==
    /\ rdPc = "done"
    /\ rdIn.exists
    /\ \A k \in 1..Len(diags) : diags[k].kind # "read_error"
    /\ LET lines == FileLines(rdIn.data)
       IN  /\ \A i \in 1..Len(lines) :
                  lines[i] \in DeclarationLineChoices \cup {L_empty, L_comment}
           /\ \A i, j \in 1..Len(lines) :
                  (i # j /\ lines[i] \in DeclarationLineChoices) => lines[i] # lines[j]

\* C12: empty lines and lines beginning with // register nothing and never
\* make the reader fail: the entries registered are those of the
\* declaration lines of the file.
C12_EmptyAndCommentLinesIgnored ==
    ReadOfWellFormedFile =>
        /\ rdRet = 0
        /\ types.user = {DeclaredEntry(l) : l \in {x \in Range(FileLines(rdIn.data)) :
                                                   x \in DeclarationLineChoices}}

LoadFailed == \E k \in 1..Len(calls) : calls[k].op = "parse_preprocessed_file" /\ ~calls[k].ok
PrimaryParseCalled == \E k \in 1..Len(calls) : calls[k].op = "ParseFile"

\* C13 as stated: after a preprocessed file failed to load, no later
\* preprocessed file is read, the primary file is not parsed, and the result
\* is non-zero.
C13_AbortsAtFirstFailure ==
    \A k \in 1..Len(calls) :
        (calls[k].op = "parse_preprocessed_file" /\ ~calls[k].ok) =>
            /\ pc = "failed_load"
            /\ ret # 0
            /\ ~PrimaryParseCalled
            /\ \A j \in (k + 1)..Len(calls) : calls[j].op # "parse_preprocessed_file"

\* C13 amended: every preprocessed file is read, whether or not an earlier
\* one failed to load; when one failed, load_and_validate_aidl returns
\* non-zero after the last of them, and the primary file is not parsed.
C13_FailsAfterReadingEveryFile ==
    pc # "start" =>
        /\ \A i \in 1..Len(input.preprocessed_files) : HasCall("parse_preprocessed_file", i, 0)
        /\ LoadFailed => (pc = "failed_load" /\ ret # 0 /\ ~PrimaryParseCalled)

\* the first preprocessed file failed to load, the second was still read and
\* loaded, and the task stopped there
C13_Witness ==
    /\ pc = "failed_load"
    /\ Len(calls) = 2
    /\ ~calls[1].ok
    /\ calls[2] = Call("parse_preprocessed_file", 2, 0, 0, TRUE)
    /\ ret # 0

NotFoundDiags(i) == {k \in 1..Len(diags) : diags[k] = Diag("import_not_found", i, 0)}
ImportKnown(i) == HasType(types, imports[i].needed)
ImportUnresolved(i) == ~ImportKnown(i) /\ input.resolve[imports[i].needed] = <<>>
ValidationOps == {"MaybeAddContainerType", "IsValidReturnType", "IsValidArg"}
ValidationDiags == {"gather_failed", "package", "method_ids", "oneway_return", "oneway_out", "redefine"}

\* the entries the declarations of a document would register
DocEntries(doc) ==
    {[kind |-> IF doc[k].item_type = "USER_DATA_TYPE" THEN "parcelable" ELSE "interface",
      name |-> CanonicalName(doc[k].package, doc[k].name)] : k \in 1..Len(doc)}

\* C14: an import that is not in the namespace and that no search path
\* resolves is reported once and makes the compile fail; every other import
\* that is not in the namespace is still looked up, and when found parsed and
\* filename-checked; the compile returns non-zero after the loop with no type
\* of the primary file or of an import registered and no validation made.
C14_UnresolvedImport ==
    /\ pc = "resolved" =>
           \A i \in 1..Len(imports) : ~ImportUnresolved(i)
    /\ (\E i \in 1..Len(imports) : NotFoundDiags(i) # {}) => pc = "failed_imports"
    /\ pc = "failed_imports" =>
           /\ ret # 0
           /\ \A i \in 1..Len(imports) :
                  /\ Cardinality(NotFoundDiags(i)) = (IF ImportUnresolved(i) THEN 1 ELSE 0)
                  /\ HasCall("FindImportFile", i, 0) <=> ~ImportKnown(i)
                  /\ HasCall("ParseFile", i, 0)
                         <=> (~ImportKnown(i) /\ input.resolve[imports[i].needed] # <<>>)
                  /\ HasCall("ParseFile", i, 0) =>
                         /\ imports[i].filename = input.resolve[imports[i].needed]
                         /\ CallOk("ParseFile", i, 0) =>
                                (HasDiag("filename", i, 0)
                                     <=> ~check_filenames(imports[i].filename, docs[i], input.cwd))
                  /\ DocEntries(docs[i]) \cap types.user = {}
           /\ DocEntries(<<interface>>) \cap types.user = {}
           /\ types.containers = {}
           /\ \A k \in 1..Len(calls) : calls[k].op \notin ValidationOps
           /\ \A k \in 1..Len(diags) : diags[k].kind \notin ValidationDiags

\* the first import was not found; the second was still looked up, found
\* and parsed; the compile stopped after the loop
C14_Witness ==
    /\ pc = "failed_imports"
    /\ Len(imports) = 2
    /\ NotFoundDiags(1) # {}
    /\ CallOk("ParseFile", 2, 0)
    /\ imports[2].filename # <<>>
    /\ docs[2] # <<>>
====
